---- MODULE Spec2Model ----
(***************************************************************************)
(* State-machine model of src/jup/index.js: the Express handlers           *)
(* POST /jupswap, GET /wallet-tokens, GET /token-metadata and              *)
(* GET /validate-key, together with the helpers they call.  A handler is split into one step per `await`:   *)
(* the step that issues an upstream call ends at the call, the next step   *)
(* starts with the reply (a value, or a rejection carrying a message).     *)
(***************************************************************************)
EXTENDS Integers, Sequences, FiniteSets, TLC

VARIABLES handler

vars == <<handler>>

(***************************************************************************)
(* Bounds of the model.                                                    *)
(***************************************************************************)
MaxAmountLen == 2
MaxAccounts == 2
MaxMetadata == 2
MaxLamports == 1

(***************************************************************************)
(* Program constants.                                                      *)
(***************************************************************************)
SecretKeyLen == 64
SlippageBps == 100
LAMPORTS_PER_SOL == 1000000000
DefaultRpcUrl == "https://api.mainnet-beta.solana.com"
NATIVE_MINT == "So11111111111111111111111111111111111111112"

(***************************************************************************)
(* JavaScript values.  A value is a record tagged with its type; a string  *)
(* is kept either as text (field s) or, where the code parses it, as its   *)
(* characters (field c).                                                   *)
(***************************************************************************)
JUndefined == [t |-> "undefined"]

JNull == [t |-> "null"]

JStr(s) == [t |-> "string", s |-> s]

JChars(c) == [t |-> "string", c |-> c]

JNum(n) == [t |-> "number", nan |-> FALSE, n |-> n]

JNaN == [t |-> "number", nan |-> TRUE, n |-> 0]

\* ToBoolean, as applied by `!x`, `if (x)` and `x || y`.
Truthy(v) ==
    CASE v.t = "undefined" -> FALSE
      [] v.t = "null" -> FALSE
      [] v.t = "number" -> ~v.nan /\ v.n # 0
      [] v.t = "string" ->
            IF "c" \in DOMAIN v THEN Len(v.c) > 0
            ELSE IF "s" \in DOMAIN v THEN v.s # ""
            ELSE ~v.isEmpty
      [] OTHER -> TRUE

\* A destructuring default `{ x = d } = obj` replaces undefined only.
Default(v, d) == IF v.t = "undefined" THEN d ELSE v

Digits == {"0", "5"}

DigitVal(ch) == IF ch = "5" THEN 5 ELSE 0

RECURSIVE DecimalValue(_)
DecimalValue(c) ==
    IF Len(c) = 0 THEN 0
    ELSE 10 * DecimalValue(SubSeq(c, 1, Len(c) - 1)) + DigitVal(c[Len(c)])

AllDigits(c) == \A i \in 1..Len(c) : c[i] \in Digits

\* Number(x) on the values a request body carries here: a number is kept,
\* undefined gives NaN, "" gives 0, an optionally signed run of digits gives
\* its value and any other text gives NaN.
ToNumber(v) ==
    CASE v.t = "number" -> v
      [] v.t = "undefined" -> JNaN
      [] v.t = "null" -> JNum(0)
      [] OTHER ->
            IF Len(v.c) = 0 THEN JNum(0)
            ELSE IF AllDigits(v.c) THEN JNum(DecimalValue(v.c))
            ELSE IF v.c[1] = "-" /\ Len(v.c) > 1 /\ AllDigits(Tail(v.c))
                 THEN JNum(0 - DecimalValue(Tail(v.c)))
            ELSE JNaN

\* The longest run of digits a text starts with.
RECURSIVE DigitPrefix(_)
DigitPrefix(c) ==
    IF Len(c) = 0 \/ c[1] \notin Digits THEN <<>>
    ELSE <<c[1]>> \o DigitPrefix(Tail(c))

\* parseInt(x) on a query-string value: an optional sign and the digits the
\* text starts with, NaN when there is no digit there.
ParseInt(v) ==
    LET signed == Len(v.c) > 0 /\ v.c[1] = "-"
        digits == DigitPrefix(IF signed THEN Tail(v.c) ELSE v.c)
    IN  IF Len(digits) = 0 THEN JNaN
        ELSE JNum((IF signed THEN 0 - 1 ELSE 1) * DecimalValue(digits))

(***************************************************************************)
(* Key material.  A key string is described by what base58 decoding makes  *)
(* of it: whether every character is in the alphabet, how many bytes it    *)
(* decodes to, and whether those bytes are a seed followed by the public   *)
(* key of that seed (pair), for the wallet `owner`.                        *)
(***************************************************************************)
KeyText(b58, len, pair, owner) ==
    [t |-> "string", isEmpty |-> (b58 /\ len = 0), b58 |-> b58, len |-> len,
     pair |-> pair, owner |-> owner]

\* bs58.default.decode: throws on a character outside the alphabet (and on
\* a value that is not a string), otherwise gives the bytes.
Bs58Decode(v) ==
    IF v.t = "string" /\ v.b58
    THEN [ok |-> TRUE, len |-> v.len, pair |-> v.pair, owner |-> v.owner]
    ELSE [ok |-> FALSE, len |-> 0, pair |-> FALSE, owner |-> "none"]

\* A keypair made from the first 32 bytes alone, whatever follows them.
KeypairFromSeed(bytes) ==
    [ok |-> bytes.len >= 32, publicKey |-> bytes.owner]

\* Keypair.fromSecretKey: throws 'bad secret key size' unless it is given 64
\* bytes and 'provided secretKey is invalid' unless the last 32 bytes are the
\* public key of the first 32.
KeypairFromSecretKey(bytes) ==
    IF bytes.len # SecretKeyLen THEN [ok |-> FALSE, publicKey |-> ""]
    ELSE IF ~bytes.pair THEN [ok |-> FALSE, publicKey |-> ""]
    ELSE [ok |-> TRUE, publicKey |-> bytes.owner]

(***************************************************************************)
(* One request handler: its route, its position, the request it received,  *)
(* its local variables, the trace of the calls it made with their          *)
(* outcomes, and the responses it wrote.                                   *)
(***************************************************************************)
Idle ==
    [route |-> "none", pc |-> "idle", body |-> JUndefined,
     amount |-> JNaN, signerKeypair |-> [ok |-> FALSE, publicKey |-> ""],
     rpcUrl |-> JUndefined,
     quote |-> JUndefined, swapSignature |-> JUndefined,
     solBalance |-> 0, tokenAccounts |-> <<>>, mintAddresses |-> <<>>,
     trace |-> <<>>, resp |-> <<>>]

Call(h, op, args) ==
    [h EXCEPT !.trace = Append(@, [k |-> "call", op |-> op, args |-> args])]

Ret(h, op, ok, val) ==
    [h EXCEPT !.trace = Append(@, [k |-> "ret", op |-> op, ok |-> ok, val |-> val])]

\* The outcome of an awaited call: a value, or a rejection with its message.
Failure(message) == [ok |-> FALSE, val |-> message]

Success(val) == [ok |-> TRUE, val |-> val]

\* res.status(status).json(body)
Respond(h, status, body) ==
    [h EXCEPT !.pc = "done", !.resp = Append(@, [status |-> status, body |-> body])]

(***************************************************************************)
(* POST /jupswap                                                           *)
(***************************************************************************)
\* SwapFail answering with the handler's swapSignature instead of null.
SwapFailKeepingSignature(h, message) ==
    Respond(h, 500, [success |-> FALSE, error |-> message,
                     swapSignature |-> h.swapSignature, outAmount |-> JNull])

\* The catch block of the handler: status 500 with the error's message.
SwapFail(h, message) ==
    Respond(h, 500, [success |-> FALSE, error |-> message,
                     swapSignature |-> JNull, outAmount |-> JNull])

\* From the entry of the handler to its first await: destructuring of the
\* body, the three validations, and the call of getJupiterSwapQuote.
JupswapEntry(h, body) ==
    LET rpcUrl == Default(body.rpcUrl, JStr(DefaultRpcUrl))
        amount == ToNumber(body.inputAmount)
        decoded == Bs58Decode(body.signer)
        keypair == IF decoded.ok THEN KeypairFromSecretKey(decoded)
                   ELSE [ok |-> FALSE, publicKey |-> ""]
        h0 == [h EXCEPT !.route = "jupswap", !.body = body]
    IN  IF \/ ~Truthy(body.inputMint) \/ ~Truthy(body.inputAmount)
           \/ ~Truthy(body.outputMint) \/ ~Truthy(rpcUrl) \/ ~Truthy(body.signer)
        THEN Respond(h0, 400,
                 [error |-> "Missing required parameters",
                  required |-> <<"inputMint", "inputAmount", "outputMint",
                                 "rpcUrl", "signer">>])
        ELSE IF amount.nan \/ amount.n <= 0
        THEN Respond(h0, 400,
                 [error |-> "Invalid inputAmount: must be a positive number"])
        ELSE IF ~keypair.ok
        THEN Respond(h0, 400, [error |-> "Invalid signer private key format"])
        ELSE Call([h0 EXCEPT !.pc = "quote", !.amount = amount,
                             !.signerKeypair = keypair, !.rpcUrl = rpcUrl],
                  "quote",
                  [inputMint |-> body.inputMint, outputMint |-> body.outputMint,
                   amount |-> amount, slippageBps |-> SlippageBps])

\* JupswapAfterQuote giving the build step the input mint as the payer.
JupswapAfterQuotePayingMint(h, reply) ==
    LET h1 == Ret(h, "quote", reply.ok, reply.val)
    IN  IF ~reply.ok THEN SwapFail(h1, reply.val)
        ELSE IF reply.val.t \in {"undefined", "null"}
        THEN SwapFail(h1, "Cannot read properties of null (reading 'priceImpactPct')")
        ELSE Call([h1 EXCEPT !.pc = "build", !.quote = reply.val],
                  "build",
                  [quoteResponse |-> reply.val,
                   userPublicKey |-> h.body.inputMint.s,
                   wrapAndUnwrapSol |-> TRUE])

\* The quote call settles (getJupiterSwapQuote returns response.data or
\* rethrows); the handler logs the quote and calls getJupiterSwapTransaction.
JupswapAfterQuote(h, reply) ==
    LET h1 == Ret(h, "quote", reply.ok, reply.val)
    IN  IF ~reply.ok THEN SwapFail(h1, reply.val)
        ELSE IF reply.val.t \in {"undefined", "null"}
        THEN SwapFail(h1, "Cannot read properties of null (reading 'priceImpactPct')")
        ELSE Call([h1 EXCEPT !.pc = "build", !.quote = reply.val],
                  "build",
                  [quoteResponse |-> reply.val,
                   userPublicKey |-> h.signerKeypair.publicKey,
                   wrapAndUnwrapSol |-> TRUE])

\* VersionedTransaction.deserialize(Buffer.from(payload, 'base64')): throws on
\* a payload that is missing or is not a serialized transaction.
Deserialize(payload) ==
    IF payload.t = "tx" THEN [ok |-> TRUE, val |-> payload]
    ELSE IF payload.t = "undefined"
    THEN [ok |-> FALSE, val |-> "The first argument must be of type string"]
    ELSE [ok |-> FALSE, val |-> "Reached end of buffer unexpectedly"]

\* swapTransaction.sign([signerKeypair]): throws unless the keypair is a
\* required signer of the message.
Sign(tx, keypair) ==
    IF tx.payer = keypair.publicKey
    THEN [ok |-> TRUE, val |-> [tx EXCEPT !.signedBy = keypair.publicKey]]
    ELSE [ok |-> FALSE, val |-> "Cannot sign with non signer key"]

\* The build call settles; the handler deserializes and signs the
\* transaction and calls connection.sendTransaction.
JupswapAfterBuild(h, reply) ==
    LET h1 == Ret(h, "build", reply.ok, reply.val)
    IN  IF ~reply.ok THEN SwapFail(h1, reply.val)
        ELSE IF reply.val.t \in {"undefined", "null"}
        THEN SwapFail(h1, "Cannot read properties of null (reading 'swapTransaction')")
        ELSE
          LET des == Deserialize(reply.val.swapTransaction)
              h2 == Ret(Call(h1, "deserialize", reply.val.swapTransaction),
                        "deserialize", des.ok, des.val)
          IN  IF ~des.ok THEN SwapFail(h2, des.val)
              ELSE
                LET sig == Sign(des.val, h.signerKeypair)
                    h3 == Ret(Call(h2, "sign", h.signerKeypair.publicKey),
                              "sign", sig.ok, sig.val)
                IN  IF ~sig.ok THEN SwapFail(h3, sig.val)
                    ELSE Call([h3 EXCEPT !.pc = "submit"], "submit",
                              [tx |-> sig.val, rpcUrl |-> h.rpcUrl])

\* JupswapAfterSubmit with a rejection of sendTransaction swallowed: the
\* handler goes on to confirmTransaction whatever the outcome.
JupswapAfterSubmitUnchecked(h, reply) ==
    LET h1 == Ret(h, "submit", reply.ok, reply.val)
    IN  Call([h1 EXCEPT !.pc = "confirm", !.swapSignature = JStr(reply.val)],
             "confirm",
             [signature |-> JStr(reply.val), commitment |-> "processed"])

\* sendTransaction settles; the handler calls connection.confirmTransaction.
JupswapAfterSubmit(h, reply) ==
    LET h1 == Ret(h, "submit", reply.ok, reply.val)
    IN  IF ~reply.ok THEN SwapFail(h1, reply.val)
        ELSE Call([h1 EXCEPT !.pc = "confirm", !.swapSignature = JStr(reply.val)],
                  "confirm",
                  [signature |-> JStr(reply.val), commitment |-> "processed"])

\* JupswapAfterConfirm reporting the request's amount as outAmount.
JupswapAfterConfirmEchoingInput(h, reply) ==
    LET h1 == Ret(h, "confirm", reply.ok, reply.val)
    IN  IF ~reply.ok THEN SwapFail(h1, reply.val)
        ELSE Respond(h1, 200,
                 [success |-> TRUE, swapSignature |-> h.swapSignature,
                  outAmount |-> h.amount, inputAmount |-> h.amount,
                  inputMint |-> h.body.inputMint, outputMint |-> h.body.outputMint,
                  priceImpactPct |-> h.quote.priceImpactPct])

\* confirmTransaction settles; its value is not looked at, and the handler
\* writes the success response.
JupswapAfterConfirm(h, reply) ==
    LET h1 == Ret(h, "confirm", reply.ok, reply.val)
    IN  IF ~reply.ok THEN SwapFail(h1, reply.val)
        ELSE Respond(h1, 200,
                 [success |-> TRUE, swapSignature |-> h.swapSignature,
                  outAmount |-> h.quote.outAmount, inputAmount |-> h.amount,
                  inputMint |-> h.body.inputMint, outputMint |-> h.body.outputMint,
                  priceImpactPct |-> h.quote.priceImpactPct])

(***************************************************************************)
(* GET /validate-key                                                       *)
(***************************************************************************)
\* ValidateKey without the try around bs58.default.decode: the outer catch
\* answers.
ValidateKeyUncaughtDecode(h, query) ==
    LET h0 == [h EXCEPT !.route = "validate-key", !.body = query]
        decoded == Bs58Decode(query.privateKey)
        keypair == KeypairFromSecretKey(decoded)
        failure(message) == [success |-> FALSE, message |-> message, publicKey |-> ""]
    IN  IF ~Truthy(query.privateKey)
        THEN Respond(h0, 400, failure("missing parameter: privateKey"))
        ELSE IF ~decoded.ok
        THEN Respond(h0, 500, failure("internal error"))
        ELSE IF decoded.len # SecretKeyLen
        THEN Respond(h0, 400, failure("invalid length"))
        ELSE IF ~keypair.ok
        THEN Respond(h0, 400, failure("no valid keypair"))
        ELSE Respond(h0, 200, [success |-> TRUE, message |-> "verified",
                               publicKey |-> keypair.publicKey])

ValidateKey(h, query) ==
    LET h0 == [h EXCEPT !.route = "validate-key", !.body = query]
        decoded == Bs58Decode(query.privateKey)
        keypair == KeypairFromSecretKey(decoded)
        failure(message) == [success |-> FALSE, message |-> message, publicKey |-> ""]
    IN  IF ~Truthy(query.privateKey)
        THEN Respond(h0, 400, failure("missing parameter: privateKey"))
        ELSE IF ~decoded.ok
        THEN Respond(h0, 400, failure("not Base58"))
        ELSE IF decoded.len # SecretKeyLen
        THEN Respond(h0, 400, failure("invalid length"))
        ELSE IF ~keypair.ok
        THEN Respond(h0, 400, failure("no valid keypair"))
        ELSE Respond(h0, 200, [success |-> TRUE, message |-> "verified",
                               publicKey |-> keypair.publicKey])

(***************************************************************************)
(* GET /wallet-tokens                                                      *)
(***************************************************************************)
\* new PublicKey(address): throws unless the text is a base58 string of 32
\* bytes; the wallets and mints of the model are such strings.
IsPublicKey(v) == v.t = "string" /\ v.s \in {"WalletA", "WalletB", "MintA", "MintB", NATIVE_MINT}

\* The catch block of the handler: status 500 with the error's message.
WalletFail(h, message) ==
    Respond(h, 500, [success |-> FALSE, error |-> message,
                     wallet |-> IF Truthy(h.body.address) THEN h.body.address
                                ELSE JStr("unknown")])

\* WalletEntry without the check of the address format.
WalletEntryUnvalidated(h, query) ==
    LET rpcUrl == Default(query.rpcUrl, JStr(DefaultRpcUrl))
        h0 == [h EXCEPT !.route = "wallet-tokens", !.body = query]
    IN  IF ~Truthy(query.address)
        THEN Respond(h0, 400, [success |-> FALSE,
                               error |-> "Missing required parameter: address"])
        ELSE Call([h0 EXCEPT !.pc = "getBalance", !.rpcUrl = rpcUrl],
                  "getBalance", [publicKey |-> query.address, rpcUrl |-> rpcUrl])

\* From the entry of the handler to its first await: the two validations of
\* the address and the call of connection.getBalance.
WalletEntry(h, query) ==
    LET rpcUrl == Default(query.rpcUrl, JStr(DefaultRpcUrl))
        h0 == [h EXCEPT !.route = "wallet-tokens", !.body = query]
    IN  IF ~Truthy(query.address)
        THEN Respond(h0, 400, [success |-> FALSE,
                               error |-> "Missing required parameter: address"])
        ELSE IF ~IsPublicKey(query.address)
        THEN Respond(h0, 400, [success |-> FALSE,
                               error |-> "Invalid Solana wallet address format"])
        ELSE Call([h0 EXCEPT !.pc = "getBalance", !.rpcUrl = rpcUrl],
                  "getBalance", [publicKey |-> query.address, rpcUrl |-> rpcUrl])

\* getBalance settles; the handler calls getParsedTokenAccountsByOwner.
WalletAfterBalance(h, reply) ==
    LET h1 == Ret(h, "getBalance", reply.ok, reply.val)
    IN  IF ~reply.ok THEN WalletFail(h1, reply.val)
        ELSE Call([h1 EXCEPT !.pc = "getTokenAccounts", !.solBalance = reply.val],
                  "getTokenAccounts",
                  [publicKey |-> h.body.address, programId |-> "TOKEN_PROGRAM_ID"])

\* `x > 0` on a number or null.
Positive(v) == v.t = "number" /\ ~v.nan /\ v.n > 0

\* CollectMints keeping each mint once.
RECURSIVE CollectMintsDistinct(_)
CollectMintsDistinct(accounts) ==
    IF Len(accounts) = 0 THEN <<>>
    ELSE LET n == Len(accounts)
             earlier == CollectMintsDistinct(SubSeq(accounts, 1, n - 1))
         IN  IF /\ accounts[n].uiAmount.n > 0
                /\ \A i \in 1..Len(earlier) : earlier[i] # accounts[n].mint
             THEN Append(earlier, accounts[n].mint)
             ELSE earlier

\* CollectMints without the test of uiAmount.
CollectMintsOfAll(accounts) == [i \in 1..Len(accounts) |-> accounts[i].mint]

\* The first forEach over the token accounts: the mints of the accounts with
\* a positive uiAmount, in account order, one per account.
RECURSIVE CollectMints(_)
CollectMints(accounts) ==
    IF Len(accounts) = 0 THEN <<>>
    ELSE IF Positive(Head(accounts).uiAmount)
         THEN <<Head(accounts).mint>> \o CollectMints(Tail(accounts))
         ELSE CollectMints(Tail(accounts))

\* getTokenMetadataFromJupiterV2 on a reply of the search service: the
\* records of response.data (or of [] when data is empty) renamed, or an
\* Error whose message wraps the upstream one.
MapMetadata(reply) ==
    IF ~reply.ok THEN Failure("Jupiter API request failed: " \o reply.val)
    ELSE IF reply.val.t = "null" THEN Success(<<>>)
    ELSE Success([i \in 1..Len(reply.val.list) |->
                    [address |-> reply.val.list[i].id,
                     symbol |-> reply.val.list[i].symbol,
                     name |-> reply.val.list[i].name,
                     decimals |-> reply.val.list[i].decimals,
                     logoURI |-> reply.val.list[i].icon,
                     usdPrice |-> reply.val.list[i].usdPrice,
                     verified |-> TRUE]])

\* tokenInfoMap: tokenMetadata.forEach(token => map.set(token.address, ...)),
\* a later record of the same address replacing an earlier one.
RECURSIVE TokenInfoMap(_)
TokenInfoMap(tokenMetadata) ==
    IF Len(tokenMetadata) = 0 THEN <<>>
    ELSE LET n == Len(tokenMetadata)
             token == tokenMetadata[n]
             earlier == TokenInfoMap(SubSeq(tokenMetadata, 1, n - 1))
             info == [symbol |-> token.symbol, name |-> token.name,
                      logoURI |-> token.logoURI, tags |-> <<>>,
                      verified |-> TRUE, source |-> "jupiter-v2",
                      usdPrice |-> token.usdPrice]
         IN  [a \in (DOMAIN earlier) \cup {token.address} |->
                IF a = token.address THEN info ELSE earlier[a]]

\* The synthetic holding of the native asset.
NativeHolding(h) ==
    [mint |-> NATIVE_MINT, symbol |-> "SOL", name |-> "Solana",
     balance |-> h.solBalance, decimals |-> 9,
     uiAmount |-> [num |-> h.solBalance, den |-> LAMPORTS_PER_SOL],
     isNative |-> TRUE, tokenAccount |-> h.body.address,
     verified |-> TRUE, source |-> "native"]

\* The catch block inside the loop over the token accounts.
FallbackHolding(account) ==
    [mint |-> account.mint, symbol |-> "UNKNOWN", name |-> "Unknown Token",
     balance |-> account.amount, decimals |-> account.decimals,
     uiAmount |-> account.uiAmount, isNative |-> FALSE,
     tokenAccount |-> account.pubkey, verified |-> FALSE,
     source |-> "fallback", error |-> "Metadata fetch failed"]

\* JoinAccount with an account of an unlisted mint skipped.
JoinAccountDroppingUnknown(account, tokenInfoMap, includeLogo, includeTags) ==
    IF ~Positive(account.uiAmount) THEN <<>>
    ELSE IF account.mint \notin DOMAIN tokenInfoMap THEN <<>>
    ELSE LET tokenInfo == tokenInfoMap[account.mint]
         IN  IF Truthy(tokenInfo.usdPrice)
             THEN <<[mint |-> account.mint, symbol |-> tokenInfo.symbol,
                     name |-> tokenInfo.name, balance |-> account.amount,
                     decimals |-> account.decimals, uiAmount |-> account.uiAmount,
                     isNative |-> FALSE, tokenAccount |-> account.pubkey,
                     verified |-> tokenInfo.verified, source |-> tokenInfo.source,
                     usdPrice |-> tokenInfo.usdPrice]>>
             ELSE <<>>

\* JoinAccount without the test of usdPrice before tokens.push.
JoinAccountKeepingPriceless(account, tokenInfoMap, includeLogo, includeTags) ==
    IF ~Positive(account.uiAmount) THEN <<>>
    ELSE IF account.mint \notin DOMAIN tokenInfoMap THEN <<FallbackHolding(account)>>
    ELSE LET tokenInfo == tokenInfoMap[account.mint]
         IN  <<[mint |-> account.mint, symbol |-> tokenInfo.symbol,
                name |-> tokenInfo.name, balance |-> account.amount,
                decimals |-> account.decimals, uiAmount |-> account.uiAmount,
                isNative |-> FALSE, tokenAccount |-> account.pubkey,
                verified |-> tokenInfo.verified, source |-> tokenInfo.source,
                usdPrice |-> tokenInfo.usdPrice]>>

\* The body of the loop over the token accounts: what one account adds to
\* tokens.  With no entry in the map tokenInfo stays undefined, reading
\* tokenInfo.symbol throws a TypeError and the catch block runs.
JoinAccount(account, tokenInfoMap, includeLogo, includeTags) ==
    IF ~Positive(account.uiAmount) THEN <<>>
    ELSE IF account.mint \notin DOMAIN tokenInfoMap THEN <<FallbackHolding(account)>>
    ELSE LET tokenInfo == tokenInfoMap[account.mint]
             tokenData ==
                [mint |-> account.mint, symbol |-> tokenInfo.symbol,
                 name |-> tokenInfo.name, balance |-> account.amount,
                 decimals |-> account.decimals, uiAmount |-> account.uiAmount,
                 isNative |-> FALSE, tokenAccount |-> account.pubkey,
                 verified |-> tokenInfo.verified, source |-> tokenInfo.source,
                 usdPrice |-> tokenInfo.usdPrice,
                 logoURI |-> IF includeLogo = JStr("true") /\ Truthy(tokenInfo.logoURI)
                             THEN tokenInfo.logoURI ELSE JUndefined,
                 tags |-> IF includeTags = JStr("true")
                          THEN [t |-> "array", list |-> tokenInfo.tags] ELSE JUndefined]
         IN  IF Truthy(tokenData.usdPrice) THEN <<tokenData>> ELSE <<>>

RECURSIVE JoinAccounts(_, _, _, _)
JoinAccounts(accounts, tokenInfoMap, includeLogo, includeTags) ==
    IF Len(accounts) = 0 THEN <<>>
    ELSE JoinAccount(Head(accounts), tokenInfoMap, includeLogo, includeTags)
           \o JoinAccounts(Tail(accounts), tokenInfoMap, includeLogo, includeTags)

\* ReportTokens with the native holding pushed after the loop.
ReportTokensNativeLast(h, tokenMetadata) ==
    LET includeLogo == Default(h.body.includeLogo, JStr("true"))
        includeTags == Default(h.body.includeTags, JStr("true"))
        native == IF h.solBalance > 0 THEN <<NativeHolding(h)>> ELSE <<>>
    IN  JoinAccounts(h.tokenAccounts, TokenInfoMap(tokenMetadata),
                     includeLogo, includeTags) \o native

\* tokens as the handler fills it: the native holding first, when the native
\* balance is positive, then what the loop over the token accounts adds.
ReportTokens(h, tokenMetadata) ==
    LET includeLogo == Default(h.body.includeLogo, JStr("true"))
        includeTags == Default(h.body.includeTags, JStr("true"))
        native == IF h.solBalance > 0 THEN <<NativeHolding(h)>> ELSE <<>>
    IN  native \o JoinAccounts(h.tokenAccounts, TokenInfoMap(tokenMetadata),
                               includeLogo, includeTags)

\* tokens.filter(t => !t.isNative).length
CountNotNative(tokens) == Cardinality({i \in 1..Len(tokens) : ~tokens[i].isNative})

\* CountVerified counting only the entries that came from the metadata.
CountVerifiedListed(tokens) ==
    Cardinality({i \in 1..Len(tokens) : tokens[i].verified /\ ~tokens[i].isNative})

\* tokens.filter(t => t.verified).length
CountVerified(tokens) == Cardinality({i \in 1..Len(tokens) : tokens[i].verified})

\* tokens.filter(t => !t.verified).length
CountNotVerified(tokens) == Cardinality({i \in 1..Len(tokens) : ~tokens[i].verified})

\* Steps 5 to 8 of the handler: tokens, the summary counts and the response.
WalletReport(h, tokenMetadata) ==
    LET tokens == ReportTokens(h, tokenMetadata)
    IN  Respond(h, 200,
            [success |-> TRUE, wallet |-> h.body.address, rpcUrl |-> h.rpcUrl,
             totalTokens |-> Len(tokens), tokens |-> tokens,
             summary |-> [solBalance |-> [num |-> h.solBalance, den |-> LAMPORTS_PER_SOL],
                          splTokensCount |-> CountNotNative(tokens),
                          verifiedTokensCount |-> CountVerified(tokens),
                          unverifiedTokensCount |-> CountNotVerified(tokens)],
             metadata |-> [source |-> "Jupiter v2/search API + Solana RPC",
                           totalMintsQueried |-> Len(h.mintAddresses),
                           successfulMetadataQueries |-> Len(tokenMetadata)]])

\* WalletAfterTokenAccounts without the test of mintAddresses.length.
WalletAfterTokenAccountsAlwaysSearching(h, reply) ==
    LET h1 == Ret(h, "getTokenAccounts", reply.ok, reply.val)
    IN  IF ~reply.ok THEN WalletFail(h1, reply.val)
        ELSE LET mintAddresses == CollectMints(reply.val)
             IN  Call([h1 EXCEPT !.pc = "metadata", !.tokenAccounts = reply.val,
                                 !.mintAddresses = mintAddresses],
                      "metadata",
                      [query |-> mintAddresses, exactMatch |-> TRUE,
                       limit |-> Len(mintAddresses)])

\* getParsedTokenAccountsByOwner settles; the handler collects the mints and
\* either calls getTokenMetadataFromJupiterV2 or, with no mint to look up,
\* goes on to the report with an empty tokenMetadata.
WalletAfterTokenAccounts(h, reply) ==
    LET h1 == Ret(h, "getTokenAccounts", reply.ok, reply.val)
    IN  IF ~reply.ok THEN WalletFail(h1, reply.val)
        ELSE LET mintAddresses == CollectMints(reply.val)
                 h2 == [h1 EXCEPT !.tokenAccounts = reply.val,
                                  !.mintAddresses = mintAddresses]
             IN  IF Len(mintAddresses) > 0
                 THEN Call([h2 EXCEPT !.pc = "metadata"], "metadata",
                           [query |-> mintAddresses, exactMatch |-> TRUE,
                            limit |-> Len(mintAddresses)])
                 ELSE WalletReport(h2, <<>>)

\* The metadata call settles; a rejection leaves the handler through its
\* outer catch block, a value goes on to the report.
WalletAfterMetadata(h, reply) ==
    LET tokenMetadata == MapMetadata(reply)
        h1 == Ret(h, "metadata", tokenMetadata.ok, tokenMetadata.val)
    IN  IF ~tokenMetadata.ok THEN WalletFail(h1, tokenMetadata.val)
        ELSE WalletReport(h1, tokenMetadata.val)

(***************************************************************************)
(* GET /token-metadata                                                     *)
(***************************************************************************)
\* TokenMetadataEntry without the return in front of res.status(400).
TokenMetadataEntryFallingThrough(h, query) ==
    LET exactMatch == Default(query.exactMatch, JStr("false"))
        limit == Default(query.limit, JChars(<<"5", "0">>))
        h0 == [h EXCEPT !.route = "token-metadata", !.body = query]
        h1 == IF ~Truthy(query.query)
              THEN Respond(h0, 400, [success |-> FALSE,
                                     error |-> "Missing required parameter: query"])
              ELSE h0
    IN  Call([h1 EXCEPT !.pc = "search"], "metadata",
             [query |-> query.query,
              exactMatch |-> (exactMatch = JStr("true")),
              limit |-> ParseInt(limit)])

\* From the entry of the handler to its await: the defaults of exactMatch
\* and limit, the check of query and the call of the search.
TokenMetadataEntry(h, query) ==
    LET exactMatch == Default(query.exactMatch, JStr("false"))
        limit == Default(query.limit, JChars(<<"5", "0">>))
        h0 == [h EXCEPT !.route = "token-metadata", !.body = query]
    IN  IF ~Truthy(query.query)
        THEN Respond(h0, 400, [success |-> FALSE,
                               error |-> "Missing required parameter: query"])
        ELSE Call([h0 EXCEPT !.pc = "search"], "metadata",
                  [query |-> query.query,
                   exactMatch |-> (exactMatch = JStr("true")),
                   limit |-> ParseInt(limit)])

\* The search settles: the found records are returned with a summary of the
\* query, a rejection is answered by the catch block.
TokenMetadataAfterSearch(h, reply) ==
    LET tokenMetadata == MapMetadata(reply)
        h1 == Ret(h, "metadata", tokenMetadata.ok, tokenMetadata.val)
        exactMatch == Default(h.body.exactMatch, JStr("false"))
        limit == Default(h.body.limit, JChars(<<"5", "0">>))
    IN  IF ~tokenMetadata.ok
        THEN Respond(h1, 500, [success |-> FALSE, error |-> tokenMetadata.val,
                               query |-> IF Truthy(h.body.query) THEN h.body.query
                                         ELSE JStr("unknown")])
        ELSE Respond(h1, 200,
                     [success |-> TRUE,
                      metadata |-> [source |-> "Jupiter v2/search API",
                                    query |-> h.body.query,
                                    exactMatch |-> (exactMatch = JStr("true")),
                                    limit |-> ParseInt(limit),
                                    found |-> Len(tokenMetadata.val)],
                      tokens |-> tokenMetadata.val])

(***************************************************************************)
(* Inputs: what a client may send, and what the upstream services and the  *)
(* ledger may answer.                                                      *)
(***************************************************************************)
AmountChars == {"-", "0", "5", "x"}

RECURSIVE SeqsUpTo(_, _)
SeqsUpTo(S, n) ==
    IF n = 0 THEN {<<>>}
    ELSE LET shorter == SeqsUpTo(S, n - 1)
         IN  shorter \cup {Append(q, e) : q \in {p \in shorter : Len(p) = n - 1}, e \in S}

Wallets == {"WalletA", "WalletB"}

MintValues == {JUndefined, JStr(""), JStr("notAnAddress"),
               JStr(NATIVE_MINT), JStr("MintA")}

AmountValues == {JUndefined, JNum(0), JNum(5)}
                  \cup {JChars(c) : c \in SeqsUpTo(AmountChars, MaxAmountLen)}

RpcUrlValues == {JUndefined, JStr(""), JStr("http://rpc")}

KeyValues ==
    {JUndefined, KeyText(TRUE, 0, FALSE, "none"), KeyText(FALSE, 0, FALSE, "none")}
      \cup {KeyText(TRUE, n, FALSE, "none") :
              n \in {32, SecretKeyLen - 1, SecretKeyLen, SecretKeyLen + 1}}
      \cup {KeyText(TRUE, SecretKeyLen, TRUE, w) : w \in Wallets}

SwapBodies ==
    [inputMint : MintValues, inputAmount : AmountValues, outputMint : MintValues,
     rpcUrl : RpcUrlValues, signer : KeyValues]

QuoteReplies ==
    {Failure("Request failed with status code 400"), Success(JNull)}
      \cup {Success([t |-> "object", outAmount |-> JStr(o), priceImpactPct |-> JStr(p)])
              : o \in {"990", "1980"}, p \in {"0", "0.01"}}

TxPayloads ==
    {JUndefined, JStr("AAAA")}
      \cup {[t |-> "tx", payer |-> w, signedBy |-> "none"] : w \in Wallets}

BuildReplies ==
    {Failure("Request failed with status code 422"), Success(JNull)}
      \cup {Success([t |-> "object", swapTransaction |-> p]) : p \in TxPayloads}

SubmitReplies ==
    {Failure("Transaction simulation failed"), Success("sig1"), Success("sig2")}

ConfirmReplies ==
    {Failure("block height exceeded"),
     Success([err |-> JNull]), Success([err |-> JStr("InstructionError")])}

KeyQueries == [privateKey : KeyValues]

\* The optional parameters are either all left out or all given.
WalletQueries ==
    {[address |-> a, rpcUrl |-> JUndefined, includeLogo |-> JUndefined,
      includeTags |-> JUndefined] :
        a \in {JUndefined, JStr(""), JStr("notAnAddress"), JStr("WalletA")}}
      \cup {[address |-> a, rpcUrl |-> JStr("http://rpc"), includeLogo |-> JStr("false"),
             includeTags |-> JStr("false")] :
               a \in {JUndefined, JStr(""), JStr("notAnAddress"), JStr("WalletA")}}

BalanceReplies ==
    {Failure("failed to get balance of account")}
      \cup {Success(n) : n \in 0..MaxLamports}

Mints == {"MintA", "MintB"}

\* A parsed token account; with decimals 0 the uiAmount is the raw amount.
\* An empty and a funded account of one mint have different addresses.
TokenAccount(mint, amount) ==
    [mint |-> mint, amount |-> amount, decimals |-> 0,
     uiAmount |-> JNum(amount),
     pubkey |-> "Acct" \o mint \o (IF amount = 0 THEN "-empty" ELSE "-funded")]

TokenAccountsReplies ==
    {Failure("failed to get token accounts owned by account")}
      \cup {Success(accounts) :
              accounts \in SeqsUpTo({TokenAccount(m, a) : m \in Mints, a \in {0, 3}},
                                    MaxAccounts)}

\* A record of the search service.
SearchToken(id, usdPrice) ==
    [id |-> id, symbol |-> "SYM" \o id, name |-> "Name " \o id, decimals |-> 0,
     icon |-> JStr("https://icons/" \o id), usdPrice |-> usdPrice]

MetadataReplies ==
    {Failure("timeout of 10000ms exceeded"), Success(JNull)}
      \cup {Success([t |-> "array", list |-> list]) :
              list \in SeqsUpTo({SearchToken(m, p) :
                                   m \in Mints, p \in {JUndefined, JNull, JNum(0), JNum(5)}},
                                MaxMetadata)}

TokenMetadataQueries ==
    [query : {JUndefined, JStr(""), JStr("USDC")},
     exactMatch : {JUndefined, JStr("true")},
     limit : {JUndefined, JChars(<<"5">>), JChars(<<"x">>)}]

(***************************************************************************)
(* Actions.                                                                *)
(***************************************************************************)
PostJupswap ==
    \E r \in DOMAIN handler :
        /\ handler[r].pc = "idle"
        /\ \E body \in SwapBodies :
             handler' = [handler EXCEPT ![r] = JupswapEntry(@, body)]

QuoteReply ==
    \E r \in DOMAIN handler :
        /\ handler[r].pc = "quote"
        /\ \E reply \in QuoteReplies :
             handler' = [handler EXCEPT ![r] = JupswapAfterQuote(@, reply)]

BuildReply ==
    \E r \in DOMAIN handler :
        /\ handler[r].pc = "build"
        /\ \E reply \in BuildReplies :
             handler' = [handler EXCEPT ![r] = JupswapAfterBuild(@, reply)]

SubmitReply ==
    \E r \in DOMAIN handler :
        /\ handler[r].pc = "submit"
        /\ \E reply \in SubmitReplies :
             handler' = [handler EXCEPT ![r] = JupswapAfterSubmit(@, reply)]

ConfirmReply ==
    \E r \in DOMAIN handler :
        /\ handler[r].pc = "confirm"
        /\ \E reply \in ConfirmReplies :
             handler' = [handler EXCEPT ![r] = JupswapAfterConfirm(@, reply)]

GetValidateKey ==
    \E r \in DOMAIN handler :
        /\ handler[r].pc = "idle"
        /\ \E query \in KeyQueries :
             handler' = [handler EXCEPT ![r] = ValidateKey(@, query)]

GetWalletTokens ==
    \E r \in DOMAIN handler :
        /\ handler[r].pc = "idle"
        /\ \E query \in WalletQueries :
             handler' = [handler EXCEPT ![r] = WalletEntry(@, query)]

BalanceReply ==
    \E r \in DOMAIN handler :
        /\ handler[r].pc = "getBalance"
        /\ \E reply \in BalanceReplies :
             handler' = [handler EXCEPT ![r] = WalletAfterBalance(@, reply)]

TokenAccountsReply ==
    \E r \in DOMAIN handler :
        /\ handler[r].pc = "getTokenAccounts"
        /\ \E reply \in TokenAccountsReplies :
             handler' = [handler EXCEPT ![r] = WalletAfterTokenAccounts(@, reply)]

MetadataReply ==
    \E r \in DOMAIN handler :
        /\ handler[r].pc = "metadata"
        /\ \E reply \in MetadataReplies :
             handler' = [handler EXCEPT ![r] = WalletAfterMetadata(@, reply)]

GetTokenMetadata ==
    \E r \in DOMAIN handler :
        /\ handler[r].pc = "idle"
        /\ \E query \in TokenMetadataQueries :
             handler' = [handler EXCEPT ![r] = TokenMetadataEntry(@, query)]

SearchReply ==
    \E r \in DOMAIN handler :
        /\ handler[r].pc = "search"
        /\ \E reply \in MetadataReplies :
             handler' = [handler EXCEPT ![r] = TokenMetadataAfterSearch(@, reply)]

Init == handler = [r \in {1} |-> Idle]

Next ==
    \/ PostJupswap
    \/ QuoteReply
    \/ BuildReply
    \/ SubmitReply
    \/ ConfirmReply
    \/ GetValidateKey
    \/ GetWalletTokens
    \/ BalanceReply
    \/ TokenAccountsReply
    \/ MetadataReply
    \/ GetTokenMetadata
    \/ SearchReply

Spec == Init /\ [][Next]_vars

(***************************************************************************)
(* Two requests in flight at once.  Node runs one handler at a time and    *)
(* switches between them only at an await, so an interleaving is a         *)
(* sequence of the steps above taken by either handler.  The requests and  *)
(* replies are a few of each kind.                                         *)
(***************************************************************************)
ConcSwapBodies ==
    {[inputMint |-> JStr(NATIVE_MINT), inputAmount |-> JChars(<<"5">>),
      outputMint |-> JStr("MintA"), rpcUrl |-> JStr("http://rpc"),
      signer |-> KeyText(TRUE, SecretKeyLen, TRUE, w)] : w \in Wallets}

ConcQuoteReplies ==
    {Failure("Request failed with status code 400"),
     Success([t |-> "object", outAmount |-> JStr("990"), priceImpactPct |-> JStr("0")])}

ConcWalletQueries ==
    {[address |-> JStr(w), rpcUrl |-> JUndefined, includeLogo |-> JUndefined,
      includeTags |-> JUndefined] : w \in Wallets}

ConcBalanceReplies == {Success(0), Success(LAMPORTS_PER_SOL)}

ConcTokenAccountsReplies ==
    {Failure("failed to get token accounts owned by account"),
     Success(<<>>),
     Success(<<TokenAccount("MintA", 3)>>)}

ConcMetadataReplies ==
    {Failure("timeout of 10000ms exceeded"),
     Success([t |-> "array", list |-> <<>>]),
     Success([t |-> "array", list |-> <<SearchToken("MintA", JNum(5))>>])}

ConcPostJupswap ==
    \E r \in DOMAIN handler :
        /\ handler[r].pc = "idle"
        /\ \E body \in ConcSwapBodies :
             handler' = [handler EXCEPT ![r] = JupswapEntry(@, body)]

ConcQuoteReply ==
    \E r \in DOMAIN handler :
        /\ handler[r].pc = "quote"
        /\ \E reply \in ConcQuoteReplies :
             handler' = [handler EXCEPT ![r] = JupswapAfterQuote(@, reply)]

ConcGetWalletTokens ==
    \E r \in DOMAIN handler :
        /\ handler[r].pc = "idle"
        /\ \E query \in ConcWalletQueries :
             handler' = [handler EXCEPT ![r] = WalletEntry(@, query)]

\* ConcBalanceReply with solBalance declared outside the handler: the
\* assignment is seen by every wallet report in flight.
ConcBalanceReplyModuleLevel ==
    \E r \in DOMAIN handler :
        /\ handler[r].pc = "getBalance"
        /\ \E reply \in ConcBalanceReplies :
             handler' = [q \in DOMAIN handler |->
                           IF q = r THEN WalletAfterBalance(handler[q], reply)
                           ELSE IF handler[q].route = "wallet-tokens"
                                   /\ handler[q].pc # "done"
                           THEN [handler[q] EXCEPT !.solBalance =
                                    WalletAfterBalance(handler[r], reply).solBalance]
                           ELSE handler[q]]

ConcBalanceReply ==
    \E r \in DOMAIN handler :
        /\ handler[r].pc = "getBalance"
        /\ \E reply \in ConcBalanceReplies :
             handler' = [handler EXCEPT ![r] = WalletAfterBalance(@, reply)]

ConcTokenAccountsReply ==
    \E r \in DOMAIN handler :
        /\ handler[r].pc = "getTokenAccounts"
        /\ \E reply \in ConcTokenAccountsReplies :
             handler' = [handler EXCEPT ![r] = WalletAfterTokenAccounts(@, reply)]

ConcMetadataReply ==
    \E r \in DOMAIN handler :
        /\ handler[r].pc = "metadata"
        /\ \E reply \in ConcMetadataReplies :
             handler' = [handler EXCEPT ![r] = WalletAfterMetadata(@, reply)]

InitConc == handler = [r \in {1, 2} |-> Idle]

NextConc ==
    \/ ConcPostJupswap
    \/ ConcQuoteReply
    \/ BuildReply
    \/ SubmitReply
    \/ ConfirmReply
    \/ ConcGetWalletTokens
    \/ ConcBalanceReply
    \/ ConcTokenAccountsReply
    \/ ConcMetadataReply

SpecConc == InitConc /\ [][NextConc]_vars

(***************************************************************************)
(* Properties.                                                             *)
(***************************************************************************)
IsCall(e) == e.k = "call"

Calls(h) == SelectSeq(h.trace, IsCall)

Settled(h, op, ok) ==
    \E i \in 1..Len(h.trace) :
        h.trace[i].k = "ret" /\ h.trace[i].op = op /\ h.trace[i].ok = ok

\* The value (or the message) the call of op settled with.
Outcome(h, op) ==
    h.trace[CHOOSE i \in 1..Len(h.trace) :
                h.trace[i].k = "ret" /\ h.trace[i].op = op].val

Answered(h, status) == h.pc = "done" /\ Len(h.resp) = 1 /\ h.resp[1].status = status

SwapSteps == <<"quote", "build", "deserialize", "sign", "submit", "confirm">>

\* C1: within one /jupswap request the steps run in the order quote, build,
\* (deserialize,) sign, submit, confirm; a step starts only when the step
\* before it has completed successfully, no step is started twice, and the
\* build step is given the very quote the quote step returned.
C1_StepsInOrderOnce ==
    \A r \in DOMAIN handler :
        LET h == handler[r]
        IN  h.route = "jupswap" =>
              /\ Len(h.trace) <= 2 * Len(SwapSteps)
              /\ \A i \in 1..Len(h.trace) :
                    IF i % 2 = 1
                    THEN /\ h.trace[i].k = "call"
                         /\ h.trace[i].op = SwapSteps[(i + 1) \div 2]
                         /\ i > 1 => h.trace[i - 1].ok
                    ELSE /\ h.trace[i].k = "ret"
                         /\ h.trace[i].op = SwapSteps[i \div 2]
              /\ \A i \in 1..Len(h.trace) :
                    h.trace[i].k = "call" /\ h.trace[i].op = "build" =>
                        h.trace[i].args.quoteResponse = Outcome(h, "quote")

C1_AllStepsRan ==
    \E r \in DOMAIN handler :
        /\ handler[r].route = "jupswap"
        /\ Answered(handler[r], 200)
        /\ Len(Calls(handler[r])) = Len(SwapSteps)

\* C2: when a step of a swap fails no later step is started and the answer
\* is 500 with success false, the failing step's message, a null
\* swapSignature and a null outAmount; a swapSignature that is not null comes
\* only with success true and is what the submit step returned.
C2_FailureShortCircuits ==
    \A r \in DOMAIN handler :
        LET h == handler[r]
        IN  h.route = "jupswap" =>
              /\ \A i \in 1..Len(h.trace) :
                    h.trace[i].k = "ret" /\ ~h.trace[i].ok =>
                        /\ i = Len(h.trace)
                        /\ h.pc = "done"
                        /\ h.resp = <<[status |-> 500,
                                       body |-> [success |-> FALSE,
                                                 error |-> h.trace[i].val,
                                                 swapSignature |-> JNull,
                                                 outAmount |-> JNull]]>>
              /\ \A j \in 1..Len(h.resp) :
                    ("swapSignature" \in DOMAIN h.resp[j].body
                       /\ h.resp[j].body.swapSignature # JNull) =>
                        /\ h.resp[j].status = 200
                        /\ h.resp[j].body.success
                        /\ Settled(h, "submit", TRUE)
                        /\ h.resp[j].body.swapSignature = JStr(Outcome(h, "submit"))

C2_SubmitFailed ==
    \E r \in DOMAIN handler :
        /\ handler[r].route = "jupswap"
        /\ Settled(handler[r], "submit", FALSE)
        /\ Answered(handler[r], 500)

Missing(v) == v.t = "undefined"

\* C3: a swap request in which any of inputMint, inputAmount, outputMint,
\* rpcUrl or signer is missing is answered 400 and no quote, build, submit or
\* confirm call is made for it.
C3_MissingFieldRejected ==
    \A r \in DOMAIN handler :
        LET h == handler[r]
        IN  (/\ h.route = "jupswap"
             /\ \E f \in {"inputMint", "inputAmount", "outputMint", "rpcUrl", "signer"} :
                    Missing(h.body[f]))
              => Answered(h, 400) /\ h.trace = <<>>

NotPositiveAmount(v) == ToNumber(v).nan \/ ToNumber(v).n <= 0

\* C4: a swap request whose inputMint or outputMint is not a well-formed
\* address, or whose inputAmount is not a positive number, is answered 400
\* and no upstream call is made for it.
C4_MalformedRejected ==
    \A r \in DOMAIN handler :
        LET h == handler[r]
        IN  (/\ h.route = "jupswap"
             /\ \/ ~IsPublicKey(h.body.inputMint)
                \/ ~IsPublicKey(h.body.outputMint)
                \/ NotPositiveAmount(h.body.inputAmount))
              => Answered(h, 400) /\ h.trace = <<>>

Quoted(h) == Settled(h, "quote", TRUE) /\ Outcome(h, "quote").t = "object"

\* C5 as stated: whenever the quote call of a swap succeeded, the answer's
\* outAmount and priceImpactPct are the quote's.
C5_OutAmountIsQuoted ==
    \A r \in DOMAIN handler :
        LET h == handler[r]
        IN  (h.route = "jupswap" /\ h.pc = "done" /\ Quoted(h)) =>
              /\ h.resp[1].body.outAmount = Outcome(h, "quote").outAmount
              /\ "priceImpactPct" \in DOMAIN h.resp[1].body
              /\ h.resp[1].body.priceImpactPct = Outcome(h, "quote").priceImpactPct

\* C5 amended: when the quote call succeeded, a success answer carries the
\* quote's outAmount and priceImpactPct, and the answer after a later
\* failure is a 500 whose outAmount is null and which has no priceImpactPct;
\* no other value is ever reported.
C5_SuccessReportsQuote ==
    \A r \in DOMAIN handler :
        LET h == handler[r]
        IN  (h.route = "jupswap" /\ h.pc = "done" /\ Quoted(h)) =>
              /\ Len(h.resp) = 1
              /\ IF h.resp[1].status = 200
                 THEN /\ h.resp[1].body.outAmount = Outcome(h, "quote").outAmount
                      /\ h.resp[1].body.priceImpactPct = Outcome(h, "quote").priceImpactPct
                 ELSE /\ h.resp[1].status = 500
                      /\ h.resp[1].body.outAmount = JNull
                      /\ "priceImpactPct" \notin DOMAIN h.resp[1].body

C5_SwapSucceeded ==
    \E r \in DOMAIN handler :
        /\ handler[r].route = "jupswap"
        /\ Answered(handler[r], 200)
        /\ Quoted(handler[r])
        /\ handler[r].resp[1].body.outAmount = JStr("1980")

KeyOf(h) == IF h.route = "jupswap" THEN h.body.signer ELSE h.body.privateKey

WrongLength(key) == key.t = "string" /\ key.b58 /\ key.len # SecretKeyLen

\* C6: key material that decodes to fewer or more than 64 bytes is answered
\* 400, in /jupswap (before any upstream call) and in /validate-key.
C6_WrongLengthKeyRejected ==
    \A r \in DOMAIN handler :
        LET h == handler[r]
        IN  (h.route \in {"jupswap", "validate-key"} /\ WrongLength(KeyOf(h)))
              => Answered(h, 400) /\ h.trace = <<>>

C6_SwapKeyTooLong ==
    \E r \in DOMAIN handler :
        /\ handler[r].route = "jupswap"
        /\ KeyOf(handler[r]).t = "string"
        /\ KeyOf(handler[r]).b58
        /\ KeyOf(handler[r]).len > SecretKeyLen
        /\ Answered(handler[r], 400)
        /\ handler[r].resp[1].body.error = "Invalid signer private key format"

\* The records getTokenMetadataFromJupiterV2 gave the handler ([] when it
\* was not called).
MetadataGiven(h) ==
    IF Settled(h, "metadata", TRUE) THEN Outcome(h, "metadata") ELSE <<>>

Listed(meta, mint) == \E i \in 1..Len(meta) : meta[i].address = mint

\* The price of the last record listed for the mint.
ListedPrice(meta, mint) ==
    meta[CHOOSE i \in 1..Len(meta) :
            /\ meta[i].address = mint
            /\ \A j \in (i + 1)..Len(meta) : meta[j].address # mint].usdPrice

Reported(h) == h.route = "wallet-tokens" /\ Answered(h, 200)

\* The positions of the token accounts of the mint with a positive uiAmount.
Held(h, mint) ==
    {i \in 1..Len(h.tokenAccounts) :
        h.tokenAccounts[i].mint = mint /\ h.tokenAccounts[i].uiAmount.n > 0}

\* The positions in the report's tokens of the non-native entries of the mint.
Entries(h, mint) ==
    {j \in 1..Len(h.resp[1].body.tokens) :
        /\ ~h.resp[1].body.tokens[j].isNative
        /\ h.resp[1].body.tokens[j].mint = mint}

IsFallback(tk) == ~tk.verified /\ tk.symbol = "UNKNOWN"

\* C7 as stated: a positive-balance holding whose mint is absent from the
\* metadata map is not in the report.
C7_AbsentKeyDropped ==
    \A r \in DOMAIN handler :
        Reported(handler[r]) =>
            \A m \in Mints :
                (Held(handler[r], m) # {} /\ ~Listed(MetadataGiven(handler[r]), m))
                  => Entries(handler[r], m) = {}

\* C7 amended: a positive-balance holding whose mint is absent from the
\* metadata map appears in the report as a fallback entry (verified false,
\* symbol "UNKNOWN"), one per such token account; the holding that is
\* dropped is the one whose metadata entry is present without a price.
C7_AbsentKeyFallsBack ==
    \A r \in DOMAIN handler :
        LET h == handler[r]
        IN  Reported(h) =>
              \A m \in Mints :
                  IF ~Listed(MetadataGiven(h), m)
                  THEN /\ Cardinality(Entries(h, m)) = Cardinality(Held(h, m))
                       /\ \A j \in Entries(h, m) : IsFallback(h.resp[1].body.tokens[j])
                  ELSE /\ \A j \in Entries(h, m) : ~IsFallback(h.resp[1].body.tokens[j])
                       /\ ~Truthy(ListedPrice(MetadataGiven(h), m)) => Entries(h, m) = {}

C7_UnlistedMintReported ==
    \E r \in DOMAIN handler :
        /\ Reported(handler[r])
        /\ Settled(handler[r], "metadata", TRUE)
        /\ \E m \in Mints :
              /\ Held(handler[r], m) # {}
              /\ ~Listed(MetadataGiven(handler[r]), m)
              /\ Entries(handler[r], m) # {}

\* C8: when the metadata lookup of a wallet report fails upstream, the
\* request still ends with a successful report.
C8_MetadataFailureIsolated ==
    \A r \in DOMAIN handler :
        LET h == handler[r]
        IN  (h.route = "wallet-tokens" /\ h.pc = "done" /\ Settled(h, "metadata", FALSE))
              => Answered(h, 200) /\ h.resp[1].body.success

\* C9: a positive-balance holding whose metadata entry was found without a
\* price (absent, null or zero) is not in the report, and every non-native
\* entry of the report has a truthy usdPrice or is a fallback entry.
C9_PricelessDropped ==
    \A r \in DOMAIN handler :
        LET h == handler[r]
        IN  Reported(h) =>
              /\ \A m \in Mints :
                    (/\ Held(h, m) # {}
                     /\ Listed(MetadataGiven(h), m)
                     /\ ~Truthy(ListedPrice(MetadataGiven(h), m)))
                      => Entries(h, m) = {}
              /\ \A j \in 1..Len(h.resp[1].body.tokens) :
                    LET tk == h.resp[1].body.tokens[j]
                    IN  ~tk.isNative =>
                          \/ "usdPrice" \in DOMAIN tk /\ Truthy(tk.usdPrice)
                          \/ IsFallback(tk)

C9_PricelessHeld ==
    \E r \in DOMAIN handler :
        /\ Reported(handler[r])
        /\ \E m \in Mints :
              /\ Held(handler[r], m) # {}
              /\ Listed(MetadataGiven(handler[r]), m)
              /\ ListedPrice(MetadataGiven(handler[r]), m) = JNull
              /\ Entries(handler[r], m) = {}
        /\ \E m \in Mints : Entries(handler[r], m) # {}

\* C10: in a successful wallet report the native holding is present exactly
\* when the native balance read from the ledger is positive, and then it is
\* the first element of tokens, whatever the metadata service returned.
C10_NativeFirstIffPositive ==
    \A r \in DOMAIN handler :
        LET h == handler[r]
            tokens == h.resp[1].body.tokens
        IN  Reported(h) =>
              /\ (Outcome(h, "getBalance") > 0) <=> (\E j \in 1..Len(tokens) : tokens[j].isNative)
              /\ \A j \in 1..Len(tokens) : tokens[j].isNative => j = 1

C10_NativeAheadOfTokens ==
    \E r \in DOMAIN handler :
        /\ Reported(handler[r])
        /\ Outcome(handler[r], "getBalance") > 0
        /\ Len(handler[r].resp[1].body.tokens) > 1
        /\ \A m \in Mints :
              Listed(MetadataGiven(handler[r]), m)
                => ~Truthy(ListedPrice(MetadataGiven(handler[r]), m))

\* The arguments of the metadata call of a wallet report.
MetadataCalls(h) ==
    {i \in 1..Len(h.trace) : h.trace[i].k = "call" /\ h.trace[i].op = "metadata"}

\* The token accounts the ledger returned.
AccountsRead(h) ==
    IF Settled(h, "getTokenAccounts", TRUE) THEN Outcome(h, "getTokenAccounts") ELSE <<>>

PositiveAccounts(accounts) == {i \in 1..Len(accounts) : accounts[i].uiAmount.n > 0}

HeldMints(accounts) == {accounts[i].mint : i \in PositiveAccounts(accounts)}

IsFunded(account) == account.uiAmount.n > 0

\* C11 as stated: the metadata query of a wallet report holds each
\* identifier of a positive-balance holding once, with exactMatch true and a
\* limit equal to the number of distinct identifiers.
C11_QueryOfDistinctMints ==
    \A r \in DOMAIN handler :
        LET h == handler[r]
        IN  h.route = "wallet-tokens" =>
              \A i \in MetadataCalls(h) :
                  LET args == h.trace[i].args
                  IN  /\ {args.query[j] : j \in 1..Len(args.query)} = HeldMints(AccountsRead(h))
                      /\ \A j, k \in 1..Len(args.query) : args.query[j] = args.query[k] => j = k
                      /\ args.exactMatch
                      /\ args.limit = Cardinality(HeldMints(AccountsRead(h)))

\* C11 amended: the query holds the identifier of every positive-balance
\* token account, one per account in account order (an identifier held in
\* several accounts is repeated), with exactMatch true and a limit equal to
\* the number of those accounts.
C11_QueryOfHeldAccounts ==
    \A r \in DOMAIN handler :
        LET h == handler[r]
        IN  h.route = "wallet-tokens" =>
              \A i \in MetadataCalls(h) :
                  LET args == h.trace[i].args
                      funded == SelectSeq(AccountsRead(h), IsFunded)
                  IN  /\ args.query = [j \in 1..Len(funded) |-> funded[j].mint]
                      /\ args.exactMatch
                      /\ args.limit = Cardinality(PositiveAccounts(AccountsRead(h)))

C11_SameMintTwice ==
    \E r \in DOMAIN handler :
        /\ handler[r].route = "wallet-tokens"
        /\ \E i \in MetadataCalls(handler[r]) :
              /\ handler[r].trace[i].args.limit = 2
              /\ handler[r].trace[i].args.query[1] = handler[r].trace[i].args.query[2]

\* C12: in a successful wallet report totalTokens is the length of tokens,
\* verifiedTokensCount + unverifiedTokensCount is totalTokens, and
\* splTokensCount is the number of non-native entries of tokens.
C12_CountsAgree ==
    \A r \in DOMAIN handler :
        LET h == handler[r]
            body == h.resp[1].body
        IN  Reported(h) =>
              /\ body.totalTokens = Len(body.tokens)
              /\ body.summary.verifiedTokensCount + body.summary.unverifiedTokensCount
                   = body.totalTokens
              /\ body.summary.splTokensCount
                   = Len(body.tokens)
                       - Cardinality({j \in 1..Len(body.tokens) : body.tokens[j].isNative})

C12_MixedReport ==
    \E r \in DOMAIN handler :
        /\ Reported(handler[r])
        /\ handler[r].resp[1].body.summary.verifiedTokensCount = 2
        /\ handler[r].resp[1].body.summary.unverifiedTokensCount = 1
        /\ handler[r].resp[1].body.summary.splTokensCount = 2

\* The positions of the token accounts with a uiAmount of zero.
EmptyAccounts(accounts) == {i \in 1..Len(accounts) : accounts[i].uiAmount.n = 0}

\* C13 as stated: a token account whose uiAmount is zero is not in tokens
\* and its identifier is not in the metadata query.
C13_EmptyAccountMintNotQueried ==
    \A r \in DOMAIN handler :
        LET h == handler[r]
            accounts == AccountsRead(h)
        IN  h.route = "wallet-tokens" =>
              \A a \in EmptyAccounts(accounts) :
                  /\ \A i \in MetadataCalls(h) :
                        \A j \in 1..Len(h.trace[i].args.query) :
                            h.trace[i].args.query[j] # accounts[a].mint
                  /\ Reported(h) =>
                        \A j \in 1..Len(h.resp[1].body.tokens) :
                            h.resp[1].body.tokens[j].isNative
                                  \/ h.resp[1].body.tokens[j].tokenAccount # accounts[a].pubkey

\* C13 amended: a token account whose uiAmount is zero is not in tokens and
\* adds no identifier to the metadata query: the query has one identifier
\* per positive-balance account, so the identifier of an empty account is in
\* it only when another account of the same asset has a positive amount.
C13_EmptyAccountAddsNothing ==
    \A r \in DOMAIN handler :
        LET h == handler[r]
            accounts == AccountsRead(h)
        IN  h.route = "wallet-tokens" =>
              /\ \A i \in MetadataCalls(h) :
                    /\ Len(h.trace[i].args.query) = Cardinality(PositiveAccounts(accounts))
                    /\ \A j \in 1..Len(h.trace[i].args.query) :
                          h.trace[i].args.query[j] \in HeldMints(accounts)
              /\ Reported(h) =>
                    \A a \in EmptyAccounts(accounts) :
                        \A j \in 1..Len(h.resp[1].body.tokens) :
                            h.resp[1].body.tokens[j].isNative
                                  \/ h.resp[1].body.tokens[j].tokenAccount # accounts[a].pubkey

C13_EmptyAccountBesideFunded ==
    \E r \in DOMAIN handler :
        /\ Reported(handler[r])
        /\ EmptyAccounts(AccountsRead(handler[r])) # {}
        /\ PositiveAccounts(AccountsRead(handler[r])) # {}
        /\ Len(handler[r].resp[1].body.tokens) > 0

WalletReads == <<"getBalance", "getTokenAccounts", "metadata">>

\* C14: a wallet-report request with a missing or malformed address is
\* answered 400 and no ledger read or metadata call is made for it; with a
\* valid address the native balance is read before the token accounts, and
\* the token accounts before the metadata query.
C14_AddressCheckedBeforeReads ==
    \A r \in DOMAIN handler :
        LET h == handler[r]
            calls == Calls(h)
        IN  h.route = "wallet-tokens" =>
              /\ (h.body.address \notin {JStr(w) : w \in Wallets})
                    => Answered(h, 400) /\ h.trace = <<>>
              /\ Len(calls) <= Len(WalletReads)
              /\ \A i \in 1..Len(calls) : calls[i].op = WalletReads[i]

C14_MalformedAddressRefused ==
    \E r \in DOMAIN handler :
        /\ handler[r].route = "wallet-tokens"
        /\ handler[r].body.address = JStr("notAnAddress")
        /\ Answered(handler[r], 400)

\* A key from which decoding gives 64 bytes and a keypair can be built.
UsableKey(key) == key.t = "string" /\ key.b58 /\ key.len = SecretKeyLen /\ key.pair

\* C16: /validate-key answers 400 with success false and an empty publicKey
\* to a missing key, a non-base58 string, a key of the wrong length and a key
\* no keypair can be built from, never 500; it answers success true with a
\* publicKey only when decoding gave 64 bytes and the keypair was built.
C16_ValidateKeyNever500 ==
    \A r \in DOMAIN handler :
        LET h == handler[r]
        IN  h.route = "validate-key" =>
              /\ Len(h.resp) = 1
              /\ IF UsableKey(h.body.privateKey)
                 THEN /\ h.resp[1].status = 200
                      /\ h.resp[1].body.success
                      /\ h.resp[1].body.publicKey = h.body.privateKey.owner
                      /\ h.resp[1].body.publicKey # ""
                 ELSE /\ h.resp[1].status = 400
                      /\ ~h.resp[1].body.success
                      /\ h.resp[1].body.publicKey = ""

C16_NotBase58Refused ==
    \E r \in DOMAIN handler :
        /\ handler[r].route = "validate-key"
        /\ handler[r].body.privateKey.t = "string"
        /\ ~handler[r].body.privateKey.b58
        /\ Answered(handler[r], 400)

\* C17: when confirmTransaction completes with a status that carries a
\* transaction error, the swap is answered as a failure.
C17_LedgerFailureReported ==
    \A r \in DOMAIN handler :
        LET h == handler[r]
        IN  (/\ h.route = "jupswap"
             /\ h.pc = "done"
             /\ Settled(h, "confirm", TRUE)
             /\ Outcome(h, "confirm").err # JNull)
              => ~h.resp[1].body.success

CallsOf(h, op) == {i \in 1..Len(h.trace) : h.trace[i].k = "call" /\ h.trace[i].op = op}

\* C18: one swap request submits at most one transaction, and only after
\* the request passed validation, the key was decoded and the quote and the
\* build call succeeded; the payer given to the build step is the public key
\* of the keypair that signs the transaction.
C18_OneSubmissionWithOwnKey ==
    \A r \in DOMAIN handler :
        LET h == handler[r]
        IN  h.route = "jupswap" =>
              /\ Cardinality(CallsOf(h, "submit")) <= 1
              /\ \A i \in CallsOf(h, "submit") :
                    /\ Truthy(h.body.inputMint) /\ Truthy(h.body.outputMint)
                    /\ ~NotPositiveAmount(h.body.inputAmount)
                    /\ UsableKey(h.body.signer)
                    /\ Settled(h, "quote", TRUE)
                    /\ Settled(h, "build", TRUE)
                    /\ Settled(h, "sign", TRUE)
                    /\ h.trace[i].args.tx.signedBy = h.body.signer.owner
              /\ \A i \in CallsOf(h, "build") :
                    /\ UsableKey(h.body.signer)
                    /\ h.trace[i].args.userPublicKey = h.body.signer.owner
                    /\ \A j \in CallsOf(h, "sign") :
                          h.trace[j].args = h.trace[i].args.userPublicKey

C18_Submitted ==
    \E r \in DOMAIN handler :
        /\ handler[r].route = "jupswap"
        /\ CallsOf(handler[r], "submit") # {}
        /\ handler[r].body.signer.owner = "WalletB"

\* C20: a wallet report makes at most one metadata call and none when no
\* token account has a positive amount; tokens is then the native holding
\* alone if the native balance is positive and empty otherwise, and
\* splTokensCount is 0.
C20_NoSearchWithoutHoldings ==
    \A r \in DOMAIN handler :
        LET h == handler[r]
        IN  h.route = "wallet-tokens" =>
              /\ Cardinality(MetadataCalls(h)) <= 1
              /\ PositiveAccounts(AccountsRead(h)) = {} =>
                    /\ MetadataCalls(h) = {}
                    /\ Reported(h) =>
                          /\ Len(h.resp[1].body.tokens)
                               = (IF Outcome(h, "getBalance") > 0 THEN 1 ELSE 0)
                          /\ \A j \in 1..Len(h.resp[1].body.tokens) :
                                h.resp[1].body.tokens[j].isNative
                          /\ h.resp[1].body.summary.splTokensCount = 0

C20_OnlyNativeReported ==
    \E r \in DOMAIN handler :
        /\ Reported(handler[r])
        /\ MetadataCalls(handler[r]) = {}
        /\ Len(AccountsRead(handler[r])) > 0
        /\ Len(handler[r].resp[1].body.tokens) = 1

Routes == {"jupswap", "wallet-tokens", "token-metadata", "validate-key"}

\* C19: every request to /jupswap, /wallet-tokens, /token-metadata and
\* /validate-key is answered exactly once on every path: a handler that has
\* not finished has written no response, one that has finished has written
\* one, and none writes two.
C19_AnsweredExactlyOnce ==
    \A r \in DOMAIN handler :
        LET h == handler[r]
        IN  /\ Len(h.resp) <= 1
            /\ h.pc = "done" <=> Len(h.resp) = 1
            /\ h.pc # "idle" => h.route \in Routes
            /\ (Len(h.trace) > 0 /\ h.trace[Len(h.trace)].k = "call") => Len(h.resp) = 0
            /\ (Len(h.trace) > 0 /\ h.trace[Len(h.trace)].k = "ret"
                   /\ ~h.trace[Len(h.trace)].ok) => Len(h.resp) = 1

C19_SearchFailureAnswered ==
    \E r \in DOMAIN handler :
        /\ handler[r].route = "token-metadata"
        /\ Settled(handler[r], "metadata", FALSE)
        /\ Answered(handler[r], 500)

\* The steps one handler can take next when it is the only one running.
SoloStep(h) ==
    CASE h.pc = "idle" ->
            {JupswapEntry(h, body) : body \in ConcSwapBodies}
              \cup {WalletEntry(h, query) : query \in ConcWalletQueries}
      [] h.pc = "quote" -> {JupswapAfterQuote(h, reply) : reply \in ConcQuoteReplies}
      [] h.pc = "build" -> {JupswapAfterBuild(h, reply) : reply \in BuildReplies}
      [] h.pc = "submit" -> {JupswapAfterSubmit(h, reply) : reply \in SubmitReplies}
      [] h.pc = "confirm" -> {JupswapAfterConfirm(h, reply) : reply \in ConfirmReplies}
      [] h.pc = "getBalance" ->
            {WalletAfterBalance(h, reply) : reply \in ConcBalanceReplies}
      [] h.pc = "getTokenAccounts" ->
            {WalletAfterTokenAccounts(h, reply) : reply \in ConcTokenAccountsReplies}
      [] h.pc = "metadata" ->
            {WalletAfterMetadata(h, reply) : reply \in ConcMetadataReplies}
      [] OTHER -> {}

RECURSIVE SoloClosure(_)
SoloClosure(S) ==
    LET T == S \cup UNION {SoloStep(h) : h \in S}
    IN  IF T = S THEN S ELSE SoloClosure(T)

\* What a request looks like from outside: the request, the upstream calls
\* with the replies they got, and the responses.
Observed(h) == [route |-> h.route, body |-> h.body, trace |-> h.trace, resp |-> h.resp]

\* Every observation a request handled alone can give.
SoloRuns == {Observed(h) : h \in SoloClosure({Idle})}

\* C15: in any interleaving of two swap and wallet-report requests at
\* their upstream calls, the upstream calls and the response of each request
\* are those of a run of that request alone that got the same replies.
C15_AsIfAlone ==
    \A r \in DOMAIN handler : Observed(handler[r]) \in SoloRuns

C15_BothInFlight ==
    /\ handler[1].route = "jupswap" /\ handler[1].pc = "confirm"
    /\ handler[2].route = "wallet-tokens" /\ handler[2].pc = "metadata"

====
